---- MODULE Spec2Model ----
(***************************************************************************)
(* Model of src/files/compose/validateDappnodeCompose.ts: the policy       *)
(* validation of an already-parsed docker compose against the dappnode     *)
(* whitelist.  The module-level AggregateError (its `errors` array and its *)
(* `message` string) is the only state that outlives a call.               *)
(*                                                                         *)
(* Representation of JavaScript values:                                    *)
(*   - a string is a TLA+ string; UNDEF stands for `undefined` (an absent  *)
(*     key), kept apart from the empty string "";                          *)
(*   - a version string "3.4" is the sequence of its dot-separated         *)
(*     components <<3, 4>>, so that `version + ".0"` is Append(version,0); *)
(*   - a message string is the sequence of its lines, a line being the     *)
(*     sequence of the error texts printed on it ("" is << <<>> >>).       *)
(***************************************************************************)
EXTENDS Integers, Sequences, FiniteSets, TLC

VARIABLES
    pc,         \* position inside validateDappnodeCompose, "idle" outside a call
    compose,    \* parameter composeUnsafe of the running call
    isCore,     \* const isCore = getIsCore(manifest)
    svc,        \* index of cpServiceName in Object.keys(composeUnsafe.services)
    errors,     \* aggregatedError.errors
    message,    \* aggregatedError.message
    thrown,     \* the exception in flight (pc = "catch") or thrown by the last call
    calls,      \* number of calls started so far
    ran,        \* the rule function that ran last, and the service it ran for
    mark,       \* Len(errors) when that rule function was entered
    prev        \* history: the input and the reported errors of the call that ended last

vars == <<pc, compose, isCore, svc, errors, message, thrown, calls, ran, mark, prev>>

----------------------------------------------------------------------------
(* Bounds of the model *)

MaxCalls    == 3
MaxServices == 2
MaxNetElems == 2
MaxMounts   == 2

----------------------------------------------------------------------------
(* Policy parameters: src/files/compose/params.ts *)

UNDEF == "<undefined>"

MINIMUM_COMPOSE_FILE_VERSION == <<3, 4>>
DOCKER_WHITELIST_NETWORKS == {"dncore_network", "dnpublic_network"}
DOCKER_CORE_ALIASES == {"dappmanager.dappnode", "ipfs.dappnode"}
SAFE_KEYS ==
    {"image", "dns", "pid", "privileged", "network_mode", "networks",
     "volumes", "environment"}
DNS_SERVICE == "172.33.1.2"

----------------------------------------------------------------------------
(* JavaScript helpers *)

Truthy(s) == s # UNDEF /\ s # ""

StartsWith(s, p) == Len(s) >= Len(p) /\ SubSeq(s, 1, Len(p)) = p

SetMin(S) == CHOOSE x \in S : \A y \in S : x <= y

\* cpServiceVolume.split(":")[0]
SplitFirst(s) ==
    LET colons == {k \in 1..Len(s) : SubSeq(s, k, k) = ":"}
    IN  IF colons = {} THEN s
        ELSE IF SetMin(colons) = 1 THEN ""
        ELSE SubSeq(s, 1, SetMin(colons) - 1)

\* Object.keys of a string primitive: the indices of its characters
StringKeys(s) == {ToString(k - 1) : k \in 1..Len(s)}

Range(f) == {f[x] : x \in DOMAIN f}

\* semver: a valid version has exactly major.minor.patch
SemverValid(v) == Len(v) = 3

SemverLt(a, b) ==
    \/ a[1] < b[1]
    \/ a[1] = b[1] /\ a[2] < b[2]
    \/ a[1] = b[1] /\ a[2] = b[2] /\ a[3] < b[3]

(* strings as sequences of lines *)
EmptyStr == << <<>> >>
Newline == << <<>>, <<>> >>
StrCat(a, b) ==
    SubSeq(a, 1, Len(a) - 1) \o << a[Len(a)] \o b[1] >> \o Tail(b)

Text(err) == [kind |-> err.kind, svc |-> err.svc]

\* errors.join("\n")
JoinErrors(errs) ==
    IF errs = <<>> THEN EmptyStr
    ELSE [k \in 1..Len(errs) |-> <<Text(errs[k])>>]

----------------------------------------------------------------------------
(* What a rule function did: the errors it pushed, in order, and whether it *)
(* ended by throwing a TypeError instead of returning.                      *)

Pushed(errs) == [errs |-> errs, threw |-> FALSE]
Threw(errs) == [errs |-> errs, threw |-> TRUE]

Err(kind, name) == [kind |-> kind, svc |-> name]
TOP == "-"

Service(c, name) ==
    LET k == CHOOSE k \in 1..Len(c.services) : c.services[k].name = name
    IN  c.services[k].def

\* Object.keys(compose.services): insertion order
ServiceNames(c) == [k \in 1..Len(c.services) |-> c.services[k].name]

----------------------------------------------------------------------------
(* validateComposeVersion *)

validateComposeVersion(c) ==
    LET declared == Append(c.version, 0)
        minimum == Append(MINIMUM_COMPOSE_FILE_VERSION, 0)
    IN  IF ~SemverValid(declared) \/ ~SemverValid(minimum) THEN Threw(<<>>)
        ELSE IF SemverLt(declared, minimum)
        THEN Pushed(<<Err("VersionTooLow", TOP)>>)
        ELSE Pushed(<<>>)

----------------------------------------------------------------------------
(* validateComposeNetworks *)

\* Variant: the external check is skipped once the whitelist check failed.
validateComposeNetworksElse(c) ==
    LET cpNetworks == c.networks
    IN  IF ~cpNetworks.def THEN Pushed(<<>>)
        ELSE IF \E n \in DOMAIN cpNetworks.map : n \notin DOCKER_WHITELIST_NETWORKS
        THEN Pushed(<<Err("NetworkNotWhitelisted", TOP)>>)
        ELSE IF \E n \in DOMAIN cpNetworks.map : cpNetworks.map[n] = "false"
        THEN Pushed(<<Err("NetworkNotExternal", TOP)>>)
        ELSE Pushed(<<>>)

validateComposeNetworks(c) ==
    LET cpNetworks == c.networks
        notWhitelisted ==
            IF \E n \in DOMAIN cpNetworks.map : n \notin DOCKER_WHITELIST_NETWORKS
            THEN <<Err("NetworkNotWhitelisted", TOP)>> ELSE <<>>
        notExternal ==
            IF \E n \in DOMAIN cpNetworks.map : cpNetworks.map[n] = "false"
            THEN <<Err("NetworkNotExternal", TOP)>> ELSE <<>>
    IN  IF cpNetworks.def THEN Pushed(notWhitelisted \o notExternal)
        ELSE Pushed(<<>>)

----------------------------------------------------------------------------
(* validateComposeServicesKeys *)

\* The keys of a service in insertion order; an absent key is left out.
KeyOrder ==
    <<"dns", "pid", "privileged", "network_mode", "networks", "volumes",
      "cap_add", "devices", "environment">>

HasKey(s, key) ==
    CASE key = "dns" -> s.dns # UNDEF
      [] key = "pid" -> s.pid # UNDEF
      [] key = "privileged" -> s.privileged # UNDEF
      [] key = "network_mode" -> s.network_mode # UNDEF
      [] key = "networks" -> s.networks.def
      [] key = "volumes" -> s.volumes.def
      [] key = "cap_add" -> s.cap_add
      [] key = "devices" -> s.devices
      [] key = "environment" -> s.environment.t # "absent"

\* Object.keys(compose.services[cpServiceName])
ServiceKeys(s) == {key \in Range(KeyOrder) : HasKey(s, key)}

\* Variant: `every` in place of `some`.
validateComposeServicesKeysEvery(c, name) ==
    IF \A key \in ServiceKeys(Service(c, name)) : key \notin SAFE_KEYS
    THEN Pushed(<<Err("ServiceKeyNotAllowed", name)>>)
    ELSE Pushed(<<>>)

validateComposeServicesKeys(c, name) ==
    IF \E key \in ServiceKeys(Service(c, name)) : key \notin SAFE_KEYS
    THEN Pushed(<<Err("ServiceKeyNotAllowed", name)>>)
    ELSE Pushed(<<>>)

----------------------------------------------------------------------------
(* validateComposeServicesValues *)

\* A value of a service as the rule sees it: null, an object with its own
\* properties, or a primitive or array, on which dns, pid, privileged and
\* network_mode are all undefined.
NoProps == [dns |-> UNDEF, pid |-> UNDEF, privileged |-> UNDEF, network_mode |-> UNDEF]
Prim == [t |-> "prim", o |-> NoProps]

ValueOf(s, key) == IF key = "environment" THEN s.environment ELSE Prim

RECURSIVE SelectKeys(_, _)
SelectKeys(s, keys) ==
    IF keys = <<>> THEN <<>>
    ELSE (IF HasKey(s, Head(keys)) THEN <<Head(keys)>> ELSE <<>>)
         \o SelectKeys(s, Tail(keys))

\* Object.values(compose.services[cpServiceName])
ServiceValues(s) ==
    LET keys == SelectKeys(s, KeyOrder)
    IN  [k \in 1..Len(keys) |-> ValueOf(s, keys[k])]

\* values.some(v => <test on a property of v>): "true", "false", or "throw"
\* when a null value is reached before a value that passes the test.
Some(values, hits) ==
    LET nulls == {k \in 1..Len(values) : values[k].t = "null"}
    IN  IF hits # {} /\ (nulls = {} \/ SetMin(hits) < SetMin(nulls)) THEN "true"
        ELSE IF nulls # {} THEN "throw"
        ELSE "false"

DnsHits(values) ==
    {k \in 1..Len(values) :
        values[k].t = "obj" /\ Truthy(values[k].o.dns) /\ values[k].o.dns # DNS_SERVICE}
PidHits(values) ==
    {k \in 1..Len(values) :
        values[k].t = "obj" /\ Truthy(values[k].o.pid)
        /\ ~StartsWith(values[k].o.pid, "service:")}
PrivilegedHits(values) ==
    {k \in 1..Len(values) : values[k].t = "obj" /\ values[k].o.privileged = "true"}
NetworkModeHits(values) ==
    {k \in 1..Len(values) : values[k].t = "obj" /\ values[k].o.network_mode = "host"}

validateComposeServicesValues(c, core, name) ==
    LET values == ServiceValues(Service(c, name))
        dns == Some(values, DnsHits(values))
        pid == Some(values, PidHits(values))
        priv == IF core THEN "false" ELSE Some(values, PrivilegedHits(values))
        mode == IF core THEN "false" ELSE Some(values, NetworkModeHits(values))
        e1 == IF dns = "true" THEN <<Err("DnsMismatch", name)>> ELSE <<>>
        e2 == e1 \o (IF pid = "true" THEN <<Err("PidUnsafe", name)>> ELSE <<>>)
        e3 == e2 \o (IF priv = "true" THEN <<Err("PrivilegedNotAllowed", name)>> ELSE <<>>)
        e4 == e3 \o (IF mode = "true" THEN <<Err("NetworkModeHostNotAllowed", name)>> ELSE <<>>)
    IN  IF dns = "throw" THEN Threw(<<>>)
        ELSE IF pid = "throw" THEN Threw(e1)
        ELSE IF priv = "throw" THEN Threw(e2)
        ELSE IF mode = "throw" THEN Threw(e3)
        ELSE Pushed(e4)

----------------------------------------------------------------------------
(* validateComposeServicesNetworks *)

\* An element of a service's `networks`: null, a string, or an object mapping
\* network names to a reference (null, or an object with `aliases`).
ElemFalsy(el) == el.t = "null" \/ (el.t = "str" /\ el.s = "")

\* Object.keys(cpServiceNetwork)
ElemKeys(el) == IF el.t = "str" THEN StringKeys(el.s) ELSE DOMAIN el.o

\* Object.values(cpServiceNetwork).map(networks => networks.aliases) throws on a
\* null reference; the characters of a string have no aliases.
AliasesThrow(el) == el.t = "obj" /\ \E n \in DOMAIN el.o : el.o[n].t = "null"

\* .flat().some(alias => alias && params.DOCKER_CORE_ALIASES.includes(alias))
UsesCoreAlias(el) ==
    /\ el.t = "obj"
    /\ \E n \in DOMAIN el.o : \E a \in Range(el.o[n].aliases) :
           Truthy(a) /\ a \in DOCKER_CORE_ALIASES

NotWhitelistedErr(name) == Err("ServiceNetworkNotWhitelisted", name)

\* One pass of the loop body for one element.
NetworkElement(el, core, name) ==
    IF ElemFalsy(el) THEN Pushed(<<>>)
    ELSE IF el.t = "str" /\ el.s \notin DOCKER_WHITELIST_NETWORKS
    THEN Pushed(<<NotWhitelistedErr(name)>>)
    ELSE LET keysErr ==
                 IF \E key \in ElemKeys(el) : key \notin DOCKER_WHITELIST_NETWORKS
                 THEN <<NotWhitelistedErr(name)>> ELSE <<>>
         IN  IF core THEN Pushed(keysErr)
             ELSE IF AliasesThrow(el) THEN Threw(keysErr)
             ELSE IF UsesCoreAlias(el)
             THEN Pushed(keysErr \o <<Err("ReservedAliasUsed", name)>>)
             ELSE Pushed(keysErr)

RECURSIVE NetworksLoop(_, _, _)
NetworksLoop(items, core, name) ==
    IF items = <<>> THEN Pushed(<<>>)
    ELSE LET first == NetworkElement(Head(items), core, name)
             rest == NetworksLoop(Tail(items), core, name)
         IN  IF first.threw THEN first
             ELSE [errs |-> first.errs \o rest.errs, threw |-> rest.threw]

validateComposeServicesNetworks(c, core, name) ==
    LET cpServiceNetworks == Service(c, name).networks
    IN  IF ~cpServiceNetworks.def THEN Pushed(<<>>)
        ELSE NetworksLoop(cpServiceNetworks.items, core, name)

----------------------------------------------------------------------------
(* validateComposeAndComposeServicesVolumes *)

\* Variant: the bind-mount check is the `else` of the name check.
VolumeElementElse(mount, cpVolumes, core, name) ==
    IF SplitFirst(mount) = "" THEN <<Err("VolumeNameMissing", name)>>
    ELSE IF ~core /\ SplitFirst(mount) \notin cpVolumes.names
    THEN <<Err("BindMountNotAllowed", name)>>
    ELSE <<>>

\* The loop body for one mount once compose.volumes is known to be defined.
VolumeElement(mount, cpVolumes, core, name) ==
    LET cpServiceVolumeName == SplitFirst(mount)
        noName ==
            IF cpServiceVolumeName = "" THEN <<Err("VolumeNameMissing", name)>>
            ELSE <<>>
        bind ==
            IF ~core /\ cpServiceVolumeName \notin cpVolumes.names
            THEN <<Err("BindMountNotAllowed", name)>> ELSE <<>>
    IN  noName \o bind

RECURSIVE VolumesLoop(_, _, _, _)
VolumesLoop(items, cpVolumes, core, name) ==
    IF items = <<>> THEN <<>>
    ELSE IF Head(items) = "" THEN VolumesLoop(Tail(items), cpVolumes, core, name)
    ELSE IF ~cpVolumes.def
    THEN <<Err("VolumeMissingTopLevelDefinition", name)>>
    ELSE VolumeElement(Head(items), cpVolumes, core, name)
         \o VolumesLoop(Tail(items), cpVolumes, core, name)

\* Variant: a core package is let off the missing top-level mapping.
validateVolumesCoreExempt(c, core, name) ==
    LET cpServiceVolumes == Service(c, name).volumes
    IN  IF ~cpServiceVolumes.def \/ (core /\ ~c.volumes.def) THEN Pushed(<<>>)
        ELSE Pushed(VolumesLoop(cpServiceVolumes.items, c.volumes, core, name))

validateComposeAndComposeServicesVolumes(c, core, name) ==
    LET cpServiceVolumes == Service(c, name).volumes
    IN  IF ~cpServiceVolumes.def THEN Pushed(<<>>)
        ELSE Pushed(VolumesLoop(cpServiceVolumes.items, c.volumes, core, name))

----------------------------------------------------------------------------
(* The inputs: composes as the loader hands them over *)

SeqsUpTo(S, n) == UNION {[1..k -> S] : k \in 0..n}

Absent == [def |-> FALSE, items |-> <<>>]
Given(items) == [def |-> TRUE, items |-> items]

NoEnvironment == [t |-> "absent", o |-> NoProps]
NullEnvironment == [t |-> "null", o |-> NoProps]

\* A service that declares nothing the policy looks at.
BaseService ==
    [dns |-> UNDEF, pid |-> UNDEF, privileged |-> UNDEF, network_mode |-> UNDEF,
     networks |-> Absent, volumes |-> Absent, cap_add |-> FALSE, devices |-> FALSE,
     environment |-> NoEnvironment]

NoNetworks == [def |-> FALSE, map |-> <<>>]
NoVolumes == [def |-> FALSE, names |-> {}]

ServiceName(k) == "s" \o ToString(k)

MakeCompose(version, networks, volumes, defs) ==
    [version |-> version, networks |-> networks, volumes |-> volumes,
     services |-> [k \in 1..Len(defs) |-> [name |-> ServiceName(k), def |-> defs[k]]]]

Input(c, core) == [compose |-> c, core |-> core]

\* compose.version: "3.0", "3.4", "3.5", "2.9", "4.0", "3.4.0", "3.0.0", "3.5.1"
Versions ==
    {<<3, 0>>, <<3, 4>>, <<3, 5>>, <<2, 9>>, <<4, 0>>,
     <<3, 4, 0>>, <<3, 0, 0>>, <<3, 5, 1>>}

\* compose.networks: undefined, or a mapping of names to { external? }
NetworkNames == {"dncore_network", "mynet"}
TopNetworks ==
    {NoNetworks} \cup
    UNION {{[def |-> TRUE, map |-> f] : f \in [D -> {"true", "false", UNDEF}]} :
              D \in SUBSET NetworkNames}

\* compose.volumes: undefined, or a mapping whose keys are the declared names
TopVolumes ==
    {NoVolumes} \cup {[def |-> TRUE, names |-> D] : D \in SUBSET {"data", "other", ""}}

\* values of the keys the value rule is about, on the service itself
DnsValues == {UNDEF, DNS_SERVICE, "8.8.8.8"}
PidValues == {UNDEF, "service:web", "host"}
PrivilegedValues == {UNDEF, "true", "false"}
NetworkModeValues == {UNDEF, "host", "bridge"}

\* environment: absent, null, or a mapping that happens to hold such names
Environments ==
    {NoEnvironment, NullEnvironment} \cup
    {[t |-> "obj", o |-> o] :
        o \in [dns : {UNDEF, DNS_SERVICE, "8.8.8.8"}, pid : {UNDEF, "host"},
               privileged : {UNDEF, "true"}, network_mode : {UNDEF, "host"}]}

ValueServices ==
    {[BaseService EXCEPT !.dns = d, !.pid = p, !.privileged = v,
                         !.network_mode = m, !.environment = e] :
        d \in DnsValues, p \in PidValues, v \in PrivilegedValues,
        m \in NetworkModeValues, e \in Environments}

\* elements of a service's networks
NullElem == [t |-> "null", s |-> "", o |-> <<>>]
StrElem(x) == [t |-> "str", s |-> x, o |-> <<>>]
ObjElem(f) == [t |-> "obj", s |-> "", o |-> f]
NullRef == [t |-> "null", aliases |-> <<>>]
Ref(aliases) == [t |-> "obj", aliases |-> aliases]
Refs == {NullRef, Ref(<<>>), Ref(<<"web">>), Ref(<<"web", "ipfs.dappnode">>)}
NetworkElems ==
    {NullElem, StrElem(""), StrElem("dncore_network"), StrElem("mynet"), ObjElem(<<>>)}
    \cup UNION {{ObjElem([n \in {name} |-> r]) : r \in Refs} : name \in NetworkNames}
    \cup {ObjElem([n \in NetworkNames |-> Ref(<<>>)])}

NetworkServices ==
    {BaseService} \cup
    {[BaseService EXCEPT !.networks = Given(items)] :
        items \in SeqsUpTo(NetworkElems, MaxNetElems)}

\* mount strings of a service's volumes
Mounts == {"", "data:/data", "other:/o:ro", ":/data", "/host:/data", "data"}

VolumeServices ==
    {BaseService} \cup
    {[BaseService EXCEPT !.volumes = Given(items)] :
        items \in SeqsUpTo(Mounts, MaxMounts)}

\* services that differ in the keys they carry
KeyServices ==
    {BaseService,
     [BaseService EXCEPT !.cap_add = TRUE],
     [BaseService EXCEPT !.cap_add = TRUE, !.devices = TRUE, !.privileged = "true"],
     [BaseService EXCEPT !.privileged = "true"],
     [BaseService EXCEPT !.cap_add = TRUE, !.environment = NullEnvironment]}

\* Every input varies the part one rule reads, the rest being plain.
Inputs ==
    {Input(MakeCompose(v, n, NoVolumes, <<BaseService>>), core) :
        v \in Versions, n \in TopNetworks, core \in BOOLEAN}
    \cup {Input(MakeCompose(<<3, 4>>, NoNetworks, NoVolumes, <<s>>), core) :
        s \in ValueServices \cup NetworkServices, core \in BOOLEAN}
    \cup {Input(MakeCompose(<<3, 4>>, NoNetworks, t, <<s>>), core) :
        t \in TopVolumes, s \in VolumeServices, core \in BOOLEAN}
    \cup {Input(MakeCompose(v, NoNetworks, NoVolumes, defs), core) :
        v \in {<<3, 4>>, <<3, 0>>, <<3, 4, 0>>},
        defs \in SeqsUpTo(KeyServices, MaxServices), core \in BOOLEAN}

\* The inputs of repeated calls: at most one service.
CallInputs ==
    {Input(MakeCompose(v, NoNetworks, NoVolumes, defs), core) :
        v \in {<<3, 4>>, <<3, 0>>, <<3, 4, 0>>},
        defs \in SeqsUpTo(KeyServices, 1), core \in BOOLEAN}

----------------------------------------------------------------------------
(* The state machine: one call of validateDappnodeCompose at a time *)

\* What the locals hold outside a call.
NoCompose == MakeCompose(<<>>, NoNetworks, NoVolumes, <<>>)
NoRule == [rule |-> "none", svc |-> 0]
NoInput == Input(NoCompose, FALSE)

Nothing == [type |-> "none", msg |-> EmptyStr]
TypeError == [type |-> "TypeError", msg |-> << <<Err("TypeError", TOP)>> >>]

\* History of the call that ended last: its input and the texts of the errors
\* it left in aggregatedError.errors.
NoCall == [input |-> NoInput, reported |-> <<>>]

Init ==
    /\ pc = "idle"
    /\ compose = NoCompose
    /\ isCore = FALSE
    /\ svc = 0
    /\ errors = <<>>
    /\ message = EmptyStr
    /\ thrown = Nothing
    /\ calls = 0
    /\ ran = NoRule
    /\ mark = 0
    /\ prev = NoCall

\* Variant: the collector is not emptied on entry.
KeepErrors(errs) == errs

\* aggregatedError.errors = []
ResetErrors(errs) == <<>>

\* validateDappnodeCompose is entered.
Enter(in) ==
    /\ pc = "idle"
    /\ pc' = "version"
    /\ compose' = in.compose
    /\ isCore' = in.core
    /\ svc' = 0
    /\ errors' = ResetErrors(errors)
    /\ thrown' = Nothing
    /\ calls' = calls + 1
    /\ ran' = NoRule
    /\ mark' = 0
    /\ UNCHANGED <<message, prev>>

\* A first call, with any input.
Call ==
    /\ calls = 0
    /\ \E in \in Inputs : Enter(in)

\* A call after earlier calls.
CallAgain ==
    /\ calls < MaxCalls
    /\ \E in \in CallInputs : Enter(in)

\* aggregatedError.errors.push(Error(...)): the Error objects are created by
\* the running call.
PushAll(errs) == errors \o [k \in 1..Len(errs) |-> [kind |-> errs[k].kind,
                                                    svc |-> errs[k].svc,
                                                    call |-> calls]]

\* A rule function runs at position `at`; control goes on to `next`, or to
\* the catch block when the rule throws.
RunRule(at, r, next, nextSvc) ==
    /\ pc = at
    /\ errors' = PushAll(r.errs)
    /\ mark' = Len(errors)
    /\ ran' = [rule |-> at, svc |-> svc]
    /\ pc' = IF r.threw THEN "catch" ELSE next
    /\ thrown' = IF r.threw THEN TypeError ELSE thrown
    /\ svc' = IF r.threw THEN svc ELSE nextSvc
    /\ UNCHANGED <<compose, isCore, message, calls, prev>>

cpServiceName == ServiceNames(compose)[svc]

ValidateComposeVersion ==
    /\ pc = "version"
    /\ RunRule("version", validateComposeVersion(compose), "networks", 0)

ValidateComposeNetworks ==
    /\ pc = "networks"
    /\ IF compose.services = <<>>
       THEN RunRule("networks", validateComposeNetworks(compose), "decide", 0)
       ELSE RunRule("networks", validateComposeNetworks(compose), "keys", 1)

ValidateComposeServicesKeys ==
    /\ pc = "keys"
    /\ RunRule("keys", validateComposeServicesKeys(compose, cpServiceName),
               "values", svc)

ValidateComposeServicesValues ==
    /\ pc = "values"
    /\ RunRule("values",
               validateComposeServicesValues(compose, isCore, cpServiceName),
               "svcnetworks", svc)

ValidateComposeServicesNetworks ==
    /\ pc = "svcnetworks"
    /\ RunRule("svcnetworks",
               validateComposeServicesNetworks(compose, isCore, cpServiceName),
               "volumes", svc)

ValidateComposeAndComposeServicesVolumes ==
    /\ pc = "volumes"
    /\ IF svc < Len(compose.services)
       THEN RunRule("volumes",
                    validateComposeAndComposeServicesVolumes(compose, isCore,
                                                             cpServiceName),
                    "keys", svc + 1)
       ELSE RunRule("volumes",
                    validateComposeAndComposeServicesVolumes(compose, isCore,
                                                             cpServiceName),
                    "decide", svc)

\* The frame of the call is left: its locals are gone.
Leave ==
    /\ pc' = "idle"
    /\ compose' = NoCompose
    /\ isCore' = FALSE
    /\ svc' = 0
    /\ ran' = NoRule
    /\ mark' = 0
    /\ prev' = [input |-> Input(compose, isCore),
                reported |-> [k \in 1..Len(errors) |-> Text(errors[k])]]

\* if (aggregatedError.errors.length > 0) throw aggregatedError;
Decide ==
    /\ pc = "decide"
    /\ IF Len(errors) > 0
       THEN /\ pc' = "catch"
            /\ thrown' = [type |-> "AggregateError", msg |-> message]
            /\ UNCHANGED <<compose, isCore, svc, ran, mark, prev>>
       ELSE /\ Leave
            /\ UNCHANGED thrown
    /\ UNCHANGED <<errors, message, calls>>

\* e.message += e.message + "\n" + aggregatedError.errors.join("\n")
Appended(msg, errs) == StrCat(msg, StrCat(StrCat(msg, Newline), JoinErrors(errs)))

\* catch (e) { if (errors.length > 0) e.message += ...; throw e; }
Catch ==
    /\ pc = "catch"
    /\ LET msg == IF Len(errors) > 0 THEN Appended(thrown.msg, errors)
                  ELSE thrown.msg
       IN  /\ thrown' = [thrown EXCEPT !.msg = msg]
           /\ message' = IF thrown.type = "AggregateError" THEN msg ELSE message
    /\ Leave
    /\ UNCHANGED <<errors, calls>>

Rules ==
    \/ ValidateComposeVersion
    \/ ValidateComposeNetworks
    \/ ValidateComposeServicesKeys
    \/ ValidateComposeServicesValues
    \/ ValidateComposeServicesNetworks
    \/ ValidateComposeAndComposeServicesVolumes
    \/ Decide
    \/ Catch

\* One call with any input.
Next == Call \/ Rules

Spec == Init /\ [][Next]_vars

\* Repeated calls in one process.
NextCalls == CallAgain \/ Rules

SpecCalls == Init /\ [][NextCalls]_vars

----------------------------------------------------------------------------
(* Properties *)

Kinds(errs) == [k \in 1..Len(errs) |-> errs[k].kind]
Texts(errs) == [k \in 1..Len(errs) |-> Text(errs[k])]
KindSet(errs) == Range(Kinds(errs))
Count(errs, kind) == Cardinality({k \in 1..Len(errs) : errs[k].kind = kind})

\* What the rule that ran last pushed.
Delta == SubSeq(errors, mark + 1, Len(errors))

\* The state is the one a given rule function leaves.
After(rule) == ran.rule = rule

\* The service the last rule ran for.
RanName == ServiceNames(compose)[ran.svc]
RanService == compose.services[ran.svc].def

CurrentInput == Input(compose, isCore)

\* C1: whatever calls came before, the errors a call ends with are all its
\* own, and a call with the same input as the call before it ends with the
\* same list of errors.
C1_OwnViolationsOnly ==
    /\ \A k \in 1..Len(errors) : errors[k].call = calls
    /\ (pc \in {"decide", "catch"} /\ calls >= 2 /\ CurrentInput = prev.input)
           => Texts(errors) = prev.reported

\* A second call repeats the input of a call that collected violations and
\* has collected its own.
C1_Witness ==
    /\ pc = "decide"
    /\ calls >= 2
    /\ CurrentInput = prev.input
    /\ prev.reported # <<>>
    /\ errors # <<>>

\* C2: the message of a thrown aggregate rejection lists the texts of the
\* errors of that call, in order, one to a line, and no other text (blank
\* lines apart).
IsText(line) == line # <<>>

C2_MessageIsJoinedViolations ==
    (pc = "idle" /\ thrown.type = "AggregateError")
        => SelectSeq(thrown.msg, IsText) = JoinErrors(errors)

\* C3: a call reaches its catch block only through the throw that follows the
\* last rule of the last service; no rule ends the run before that.
C3_FailTogether ==
    pc = "catch" =>
        /\ thrown.type = "AggregateError"
        /\ ran = IF compose.services = <<>> THEN [rule |-> "networks", svc |-> 0]
                 ELSE [rule |-> "volumes", svc |-> Len(compose.services)]

\* C4: the value rule reports each of its four violations exactly when the
\* service's own dns, pid, privileged and network_mode call for it.
C4_ValueRules ==
    After("values") =>
        LET s == RanService
            k == KindSet(Delta)
        IN  /\ ("DnsMismatch" \in k) <=> (s.dns # UNDEF /\ s.dns # DNS_SERVICE)
            /\ ("PidUnsafe" \in k) <=> (s.pid # UNDEF /\ ~StartsWith(s.pid, "service:"))
            /\ ("PrivilegedNotAllowed" \in k) <=> (s.privileged = "true" /\ ~isCore)
            /\ ("NetworkModeHostNotAllowed" \in k)
                   <=> (s.network_mode = "host" /\ ~isCore)

\* C5: the version rule returns, having added one VersionTooLow when the
\* declared version, with a patch of 0 supplied if it has none, is lower than
\* the minimum, and nothing otherwise.
WithPatch(v) == IF Len(v) = 2 THEN Append(v, 0) ELSE v

C5_VersionRule ==
    After("version") =>
        /\ pc # "catch"
        /\ Kinds(Delta) =
               IF SemverLt(WithPatch(compose.version),
                           WithPatch(MINIMUM_COMPOSE_FILE_VERSION))
               THEN <<"VersionTooLow">> ELSE <<>>

\* C6: with no top-level volumes and at least one non-empty mount, the volume
\* rule adds one VolumeMissingTopLevelDefinition for the service and nothing
\* else, core or not.
NonEmptyMounts(s) == {k \in 1..Len(s.volumes.items) : s.volumes.items[k] # ""}

C6_MissingTopLevelVolumes ==
    (After("volumes") /\ ~compose.volumes.def /\ NonEmptyMounts(RanService) # {})
        => Texts(Delta) = <<Err("VolumeMissingTopLevelDefinition", RanName)>>

\* A core package with two non-empty mounts and no top-level volumes.
C6_Witness ==
    /\ After("volumes")
    /\ ~compose.volumes.def
    /\ isCore
    /\ Cardinality(NonEmptyMounts(RanService)) >= 2
    /\ Kinds(Delta) = <<"VolumeMissingTopLevelDefinition">>

RECURSIVE Flatten(_)
Flatten(seqs) == IF seqs = <<>> THEN <<>> ELSE Head(seqs) \o Flatten(Tail(seqs))

\* C7 as stated: with top-level volumes present each mount yields at most one
\* violation, VolumeNameMissing for an empty first segment, else
\* BindMountNotAllowed for a non-core package and an undeclared name (empty
\* mount strings, which the rule passes over, are left aside).
MountByCases(m) ==
    IF m = "" THEN <<>>
    ELSE IF SplitFirst(m) = "" THEN <<"VolumeNameMissing">>
    ELSE IF ~isCore /\ SplitFirst(m) \notin compose.volumes.names
    THEN <<"BindMountNotAllowed">>
    ELSE <<>>

C7_OneViolationPerMount ==
    (After("volumes") /\ compose.volumes.def) =>
        LET items == RanService.volumes.items
        IN  Kinds(Delta) = Flatten([k \in 1..Len(items) |-> MountByCases(items[k])])

\* C7 amended: an empty mount string is skipped; any other mount yields
\* VolumeNameMissing when its first segment is empty and, whether or not it
\* did, BindMountNotAllowed when the package is not core and the segment is
\* no key of the top-level volumes.
MountBothChecks(m) ==
    IF m = "" THEN <<>>
    ELSE (IF SplitFirst(m) = "" THEN <<"VolumeNameMissing">> ELSE <<>>)
         \o (IF ~isCore /\ SplitFirst(m) \notin compose.volumes.names
             THEN <<"BindMountNotAllowed">> ELSE <<>>)

C7_IndependentMountChecks ==
    (After("volumes") /\ compose.volumes.def) =>
        LET items == RanService.volumes.items
        IN  Kinds(Delta) = Flatten([k \in 1..Len(items) |-> MountBothChecks(items[k])])

\* A non-core package mounts ":/data" and gets both violations for it.
C7_Witness ==
    /\ After("volumes")
    /\ compose.volumes.def
    /\ ~isCore
    /\ RanService.volumes.items = <<":/data">>
    /\ Kinds(Delta) = <<"VolumeNameMissing", "BindMountNotAllowed">>

\* C8: when the network rule returns, it has added one
\* ServiceNetworkNotWhitelisted for each element that is a bare name outside
\* the whitelist or an object with a key outside it, and for no other element.
OffWhitelist(el) ==
    \/ el.t = "str" /\ el.s # "" /\ el.s \notin DOCKER_WHITELIST_NETWORKS
    \/ el.t = "obj" /\ \E n \in DOMAIN el.o : n \notin DOCKER_WHITELIST_NETWORKS

C8_ServiceNetworkWhitelist ==
    (After("svcnetworks") /\ pc # "catch") =>
        LET items == RanService.networks.items
        IN  Count(Delta, "ServiceNetworkNotWhitelisted")
                = Cardinality({k \in 1..Len(items) : OffWhitelist(items[k])})

\* C9: the top-level network rule adds NetworkNotWhitelisted once when some
\* declared name is off the whitelist, then NetworkNotExternal once when some
\* declared network has external false, and nothing without a mapping.
C9_TopLevelNetworks ==
    After("networks") =>
        LET n == compose.networks
        IN  Kinds(Delta) =
               (IF n.def /\ DOMAIN n.map \ DOCKER_WHITELIST_NETWORKS # {}
                THEN <<"NetworkNotWhitelisted">> ELSE <<>>)
               \o (IF n.def /\ "false" \in Range(n.map)
                   THEN <<"NetworkNotExternal">> ELSE <<>>)

\* "mynet", external: false, alone: exactly the two violations.
C9_Witness ==
    /\ After("networks")
    /\ compose.networks.def
    /\ DOMAIN compose.networks.map = {"mynet"}
    /\ compose.networks.map["mynet"] = "false"
    /\ Kinds(Delta) = <<"NetworkNotWhitelisted", "NetworkNotExternal">>

\* C10: the keys rule adds one ServiceKeyNotAllowed naming the service when
\* the service has a key outside the safe keys, and nothing otherwise.
C10_ServiceKeys ==
    After("keys") =>
        Texts(Delta) =
            IF ServiceKeys(RanService) \ SAFE_KEYS # {}
            THEN <<Err("ServiceKeyNotAllowed", RanName)>> ELSE <<>>

\* A second service with two unsafe keys and a safe one.
C10_Witness ==
    /\ After("keys")
    /\ ran.svc = 2
    /\ Cardinality(ServiceKeys(RanService) \ SAFE_KEYS) = 2
    /\ Texts(Delta) = <<Err("ServiceKeyNotAllowed", "s2")>>

====
